---- MODULE Spec2Model ----
(***************************************************************************)
(* Model of lab/roles.py: RoleManager, Location and EnvManager, together   *)
(* with the lock client (lab/lock.py) and the Environment (lab/model.py)   *)
(* they talk to.  Every process owns one EnvManager; the lock service is   *)
(* the only state the processes share.                                     *)
(***************************************************************************)
EXTENDS Integers, Sequences, FiniteSets, TLC

(* ---------------------------- bounds ----------------------------------- *)
\* Location objects one process may construct over a run
MaxLocations == 2
\* role controllers one process may have built by its factories over a run
MaxCtls == 2

(* ------------------------- fixed configuration ------------------------- *)
Procs == {1, 2}
Hosts == {"h1", "h2"}
NoProc == 0
NoId == 0
\* the `location` attribute of a controller that names some other object
Elsewhere == -1
\* the `location` attribute of a controller that defines none
NoAttr == -2

VARIABLES
    locations,   \* EnvManager.locations: per process, OrderedDict hostname -> Location
    locs,        \* per process, every Location object constructed so far
    ctls,        \* per process, every controller a factory has returned so far
    registered,  \* per process, controllers registered with the plugin manager
    locker,      \* per process, whether EnvManager.locker is set (it is, in every run here)
    holder,      \* lock service: hostname -> process holding its lock
    waiting,     \* per process, the acquire() call it is blocked in, if any
    lockcalls,   \* per process, the call log of its lock client if it keeps one:
                 \* per hostname, the acquire() calls that succeeded and the
                 \* release() calls
    history,     \* per process, the event bus's log of role-created notifications
    inbox,       \* per process, what each attached subscriber was delivered
    last         \* the operation that ran last: arguments, outcome, calls made

vars == <<locations, locs, ctls, registered, locker, holder, waiting, lockcalls,
          history, inbox, last>>

(* ----------------------------- dictionaries ---------------------------- *)
\* A dict is its mapping plus the insertion order of its keys.
Dict(order, val) == [order |-> order, val |-> val]

EmptyDict == Dict(<<>>, <<>>)

\* dict.items(): the (key, value) pairs in insertion order
Items(d) == [i \in 1..Len(d.order) |-> <<d.order[i], d.val[d.order[i]]>>]

\* roles.py:88  key = name, tuple(kwargs.items())
RoleKey(name, kwargs) == <<name, Items(kwargs)>>

\* facts are plain mappings (functions); `facts or {}` and `if facts`
Truthy(facts) == DOMAIN facts # {}

\* an update that replaces the mapping
DictUpdate_replace(f, g) == g

\* dict.update
DictUpdate(f, g) ==
    [k \in (DOMAIN f) \cup (DOMAIN g) |-> IF k \in DOMAIN g THEN g[k] ELSE f[k]]

\* position of `key` in an OrderedDict kept as a sequence of entries, 0 if absent
IndexOf(od, key) ==
    IF \E i \in 1..Len(od) : od[i].key = key
    THEN CHOOSE i \in 1..Len(od) : od[i].key = key
    ELSE 0

\* OrderedDict.pop(key): the entries without the one at position i
RemoveAt(od, i) == [j \in 1..(Len(od) - 1) |-> IF j < i THEN od[j] ELSE od[j + 1]]

\* the values in insertion order
ForwardValues(od) == [i \in 1..Len(od) |-> od[i].value]

\* reversed(od.copy().values())
ReversedValues(od) == [i \in 1..Len(od) |-> od[Len(od) + 1 - i].value]

(* --------------------------- calls observed ---------------------------- *)
\* one call made on a collaborator: factory, plugin manager, hook, lock client
Ev(name, host, id) == [ev |-> name, host |-> host, id |-> id]

CountEv(calls, name) == Cardinality({i \in 1..Len(calls) : calls[i].ev = name})

(* ------------------------------ event bus ------------------------------ *)
\* plugins that implement the role-created hook and may attach to the bus
Subs == {"s1", "s2"}

\* a live call of a hook: payload c goes to the subscribers attached now
call_live(st, c) ==
    [st EXCEPT !.inbox = [s \in DOMAIN @ |-> [@[s] EXCEPT !.got = Append(@, c)]]]

\* call_historic of a hook: the payload is logged, then delivered live
call_historic(st, c) == call_live([st EXCEPT !.history = Append(@, c)], c)

\* a subscriber attaching when `log` has been fired: the log is replayed to it
attach(log) == [joined |-> Len(log), got |-> log]

(* ----------------------------- RoleManager ----------------------------- *)
\* RoleManager.roles2factories after pytest_lab_addroles: what each registered
\* factory returns (its `location` attribute and its `close` capability)
roles2factories ==
    [dut |-> [location |-> "self",  close |-> "ok"],
     sip |-> [location |-> "self",  close |-> "none"],
     bad |-> [location |-> "self",  close |-> "raises"],
     raw |-> [location |-> "none",  close |-> "ok"],
     far |-> [location |-> "other", close |-> "ok"]]

\* role names a caller may ask for ("nope" has no factory)
RoleNames == (DOMAIN roles2factories) \cup {"nope"}

\* the working state an operation threads through the calls it makes
St(p) == [proc |-> p, locations |-> locations[p], locs |-> locs[p],
          ctls |-> ctls[p], registered |-> registered[p], locker |-> locker[p],
          holder |-> holder, lockcalls |-> lockcalls[p], history |-> history[p], inbox |-> inbox[p],
          calls |-> <<>>, err |-> "ok", ret |-> <<>>,
          blocked |-> <<>>, todo |-> <<>>]

Raise(st, err) == [st EXCEPT !.err = err]

Call(st, e) == [st EXCEPT !.calls = Append(@, e)]

\* RoleManager.build: invoke the factory, stamp `name`; `torn` is the number
\* of times the controller has been handed to _close_role
build(st, rolename, l, key) ==
    IF rolename \notin DOMAIN roles2factories
    THEN Raise(st, "KeyError")
    ELSE LET f == roles2factories[rolename]
             ctl == [name |-> rolename, key |-> key, close |-> f.close,
                     torn |-> 0,
                     location |-> CASE f.location = "self" -> l
                                    [] f.location = "none" -> NoAttr
                                    [] OTHER -> Elsewhere]
             c == Len(st.ctls) + 1
         IN [Call(st, Ev("factory", st.locs[l].hostname, c))
                EXCEPT !.ctls = Append(@, ctl), !.ret = <<c>>]

(* ------------------------------- Location ------------------------------ *)
\* a role-created notification that is fired as a live one
role_created_live(st, h, c) == call_live(Call(st, Ev("role_created", h, c)), c)

\* roles.py:114  config.hook.pytest_lab_role_created.call_historic(...)
role_created(st, h, c) == call_historic(Call(st, Ev("role_created", h, c)), c)

\* Location.__init__
NewLocation(hostname, facts) ==
    [hostname |-> hostname,
     facts |-> IF Truthy(facts) THEN facts ELSE <<>>,
     roles |-> <<>>]

\* a lookup that never finds the key
CacheLookup_miss(roles, key) == NoId

\* self.roles[key], 0 standing for KeyError
CacheLookup(roles, key) ==
    IF IndexOf(roles, key) = 0 THEN NoId ELSE roles[IndexOf(roles, key)].value

\* Location.role
role(st, l, name, kwargs) ==
    LET key == RoleKey(name, kwargs)
        hit == CacheLookup(st.locs[l].roles, key)
    IN IF hit # NoId
       THEN [st EXCEPT !.ret = <<hit>>]
       ELSE LET b == build(st, name, l, key)
            IN IF b.err # "ok" THEN b
               ELSE LET c == b.ret[1]
                        cached == [b EXCEPT !.locs[l].roles =
                                       Append(@, [key |-> key, value |-> c]),
                                            !.ret = <<>>]
                    IN CASE b.ctls[c].location = NoAttr ->
                              Raise(cached, "AttributeError")
                         [] b.ctls[c].location # l ->
                              Raise(cached, "AssertionError")
                         [] OTHER ->
                              [role_created(
                                   [Call(cached,
                                         Ev("register", st.locs[l].hostname, c))
                                       EXCEPT !.registered = @ \cup {c}],
                                   st.locs[l].hostname, c)
                                 EXCEPT !.ret = <<c>>]

\* a _close_role that tears the controller down before it announces it
close_role_closefirst(st, l, c) ==
    LET h == st.locs[l].hostname
        torn == [st EXCEPT !.ctls[c].torn = @ + 1]
        fire(s) == Call(s, Ev("role_destroyed", h, c))
        unregister(s) == [Call(s, Ev("unregister", h, c))
                             EXCEPT !.registered = @ \ {c}]
    IN CASE st.ctls[c].close = "raises" ->
              Raise(Call(torn, Ev("close", h, c)), "CloseError")
         [] st.ctls[c].close = "ok" ->
              unregister(fire(Call(torn, Ev("close", h, c))))
         [] OTHER -> unregister(fire(torn))

\* Location._close_role
close_role(st, l, c) ==
    LET h == st.locs[l].hostname
        fired == Call([st EXCEPT !.ctls[c].torn = @ + 1],
                      Ev("role_destroyed", h, c))
        unregister(s) == [Call(s, Ev("unregister", h, c))
                             EXCEPT !.registered = @ \ {c}]
    IN CASE st.ctls[c].close = "raises" ->
              Raise(Call(fired, Ev("close", h, c)), "CloseError")
         [] st.ctls[c].close = "ok" -> unregister(Call(fired, Ev("close", h, c)))
         [] OTHER -> unregister(fired)

\* a destroy that looks the controller up and leaves it in the cache
Location_destroy_nopop(st, l, c) ==
    LET i == IndexOf(st.locs[l].roles, st.ctls[c].key)
    IN IF i = 0 THEN st ELSE close_role(st, l, st.locs[l].roles[i].value)

\* Location.destroy
Location_destroy(st, l, c) ==
    LET i == IndexOf(st.locs[l].roles, st.ctls[c].key)
    IN IF i = 0 THEN st
       ELSE close_role([st EXCEPT !.locs[l].roles = RemoveAt(@, i)], l,
                       st.locs[l].roles[i].value)

RECURSIVE DestroyRoles(_, _, _, _)
\* the loop of Location.cleanup, left at the first destroy that raises
DestroyRoles(st, l, todo, i) ==
    IF i > Len(todo) THEN st
    ELSE LET s == Location_destroy(st, l, todo[i])
         IN IF s.err # "ok" THEN s ELSE DestroyRoles(s, l, todo, i + 1)

\* Location.cleanup
Location_cleanup(st, l) ==
    LET s == DestroyRoles(st, l, ReversedValues(st.locs[l].roles), 1)
    IN IF s.err # "ok" THEN s
       ELSE IF Len(s.locs[l].roles) # 0 THEN Raise(s, "AssertionError")
       ELSE s

(* ------------------------------ lock client ---------------------------- *)
\* the call log of a lock client that keeps one: nothing called yet
NoCalls == [h \in Hosts |-> [acquired |-> 0, released |-> 0]]

\* the call log `log` after one more call of `what` for hostname (a lock
\* client that keeps no log has the empty one)
Logged(log, hostname, what) ==
    IF hostname \in DOMAIN log THEN [log EXCEPT ![hostname][what] = @ + 1] ELSE log

\* ResourceLocker.acquire: succeeds when the lock is free (or already ours),
\* else raises after `timeout`, or blocks when no timeout is given
acquire(st, hostname, timeout) ==
    LET called == Call(st, Ev("acquire", hostname, NoId))
    IN CASE st.holder[hostname] \in {NoProc, st.proc} ->
              [called EXCEPT !.holder[hostname] = st.proc,
                             !.lockcalls = Logged(@, hostname, "acquired")]
         [] timeout -> Raise(called, "LockTimeout")
         [] OTHER -> Raise(called, "blocked")

\* ResourceLocker.release
release(st, hostname) ==
    [Call(st, Ev("release", hostname, NoId))
        EXCEPT !.holder[hostname] = IF @ = st.proc THEN NoProc ELSE @,
               !.lockcalls = Logged(@, hostname, "released")]

\* ResourceLocker.release_all
release_all(st) ==
    [Call(st, Ev("release_all", "", NoId))
        EXCEPT !.holder = [h \in Hosts |-> IF st.holder[h] = st.proc
                                           THEN NoProc ELSE st.holder[h]]]

(* ------------------------------ Environment ---------------------------- *)
\* Environment.get(rolename): hostnames of the descriptors, [] if unknown
EnvGet(rolename) ==
    CASE rolename = "dut" -> <<"h1", "h2">>
      [] rolename = "sip" -> <<"h1">>
      [] OTHER -> <<>>

\* the facts of the descriptor of a hostname
EnvFacts(hostname) == IF hostname = "h1" THEN ("k1" :> 1) ELSE <<>>

\* EnvManager.neverlock
neverlock == {"sip"}

(* ------------------------------- EnvManager ---------------------------- *)
\* a lock flag that is set for every role
should_lock_always(rolename) == TRUE

\* roles.py:229  lock = rolename not in self.neverlock
should_lock(rolename) == rolename \notin neverlock

\* a manage that acquires the lock on every call that asks for it
manage_reacquire(st, hostname, facts, lock, timeout) ==
    LET i == IndexOf(st.locations, hostname)
        l == IF i = 0 THEN Len(st.locs) + 1 ELSE st.locations[i].value
        got == IF i = 0
               THEN [st EXCEPT
                       !.locs = Append(@, NewLocation(hostname, facts)),
                       !.locations = Append(@, [key |-> hostname, value |-> l]),
                       !.ret = <<l>>]
               ELSE IF Truthy(facts) /\ st.locs[l].facts # facts
               THEN [st EXCEPT !.locs[l].facts = DictUpdate(@, facts),
                               !.ret = <<l>>]
               ELSE [st EXCEPT !.ret = <<l>>]
    IN IF lock /\ st.locker
       THEN LET a == acquire(got, hostname, timeout)
            IN IF a.err = "ok" THEN a
               ELSE [a EXCEPT !.ret = <<>>, !.blocked = <<l>>]
       ELSE got

\* EnvManager.manage
manage(st, hostname, facts, lock, timeout) ==
    LET i == IndexOf(st.locations, hostname)
    IN IF i = 0
       THEN LET l == Len(st.locs) + 1
                made == [st EXCEPT
                           !.locs = Append(@, NewLocation(hostname, facts)),
                           !.locations = Append(@, [key |-> hostname, value |-> l]),
                           !.ret = <<l>>]
            IN IF lock /\ st.locker
               THEN LET a == acquire(made, hostname, timeout)
                    IN IF a.err = "ok" THEN a
                       ELSE [a EXCEPT !.ret = <<>>, !.blocked = <<l>>]
               ELSE made
       ELSE LET l == st.locations[i].value
            IN IF Truthy(facts) /\ st.locs[l].facts # facts
               THEN [st EXCEPT !.locs[l].facts = DictUpdate(@, facts),
                               !.ret = <<l>>]
               ELSE [st EXCEPT !.ret = <<l>>]

RECURSIVE ManageEach(_, _, _, _, _)
\* the list comprehension of get_locations over the descriptors `todo`,
\* `acc` being the Locations collected so far
ManageEach(st, todo, acc, lock, timeout) ==
    IF Len(todo) = 0 THEN [st EXCEPT !.ret = acc]
    ELSE LET s == manage(st, Head(todo), EnvFacts(Head(todo)), lock, timeout)
         IN IF s.err = "blocked" THEN [s EXCEPT !.todo = Tail(todo), !.ret = acc]
            ELSE IF s.err # "ok" THEN s
            ELSE ManageEach(s, Tail(todo), acc \o s.ret, lock, timeout)

\* a lookup that answers an unknown role with the empty list
get_locations_empty(st, rolename, timeout) ==
    ManageEach(st, EnvGet(rolename), <<>>, should_lock(rolename), timeout)

\* EnvManager.get_locations
get_locations(st, rolename, timeout) ==
    IF Len(EnvGet(rolename)) = 0
    THEN Raise(st, "EquipmentLookupError")
    ELSE ManageEach(st, EnvGet(rolename), <<>>, should_lock(rolename), timeout)

RECURSIVE RoleEach(_, _, _, _)
\* the list comprehension of find over the Locations `todo`
RoleEach(st, todo, acc, rolename) ==
    IF Len(todo) = 0 THEN [st EXCEPT !.ret = acc]
    ELSE LET s == role(st, Head(todo), rolename, EmptyDict)
         IN IF s.err # "ok" THEN s
            ELSE RoleEach(s, Tail(todo), acc \o s.ret, rolename)

\* EnvManager.find, from the point where get_locations has returned
find_roles(got, rolename) ==
    IF got.err # "ok" THEN got ELSE RoleEach(got, got.ret, <<>>, rolename)

\* EnvManager.find
find(st, rolename, timeout) ==
    find_roles(get_locations(st, rolename, timeout), rolename)

\* EnvManager.find_one, from the point where find has returned
first_of(found) ==
    IF found.err # "ok" THEN found
    ELSE IF Len(found.ret) = 0 THEN Raise(found, "IndexError")
    ELSE [found EXCEPT !.ret = <<found.ret[1]>>]

\* EnvManager.find_one
find_one(st, rolename, timeout) == first_of(find(st, rolename, timeout))

\* a destroy that releases the lock before it cleans the Location up
EnvManager_destroy_releasefirst(st, l) ==
    LET h == st.locs[l].hostname
        i == IndexOf(st.locations, h)
    IN IF i = 0 THEN Raise(st, "ValueError")
       ELSE LET popped == [st EXCEPT !.locations = RemoveAt(@, i)]
                released == IF st.locker THEN release(popped, h) ELSE popped
                cleaned == Location_cleanup(released, l)
            IN IF cleaned.err # "ok" THEN cleaned
               ELSE Call(cleaned, Ev("location_destroyed", h, l))

\* a destroy that goes on when the Location is not in the cache
EnvManager_destroy_unchecked(st, l) ==
    LET h == st.locs[l].hostname
        i == IndexOf(st.locations, h)
        popped == IF i = 0 THEN st ELSE [st EXCEPT !.locations = RemoveAt(@, i)]
        cleaned == Location_cleanup(popped, l)
    IN IF cleaned.err # "ok" THEN cleaned
       ELSE LET told == Call(cleaned, Ev("location_destroyed", h, l))
            IN IF st.locker THEN release(told, h) ELSE told

\* EnvManager.destroy
EnvManager_destroy(st, l) ==
    LET h == st.locs[l].hostname
        i == IndexOf(st.locations, h)
    IN IF i = 0 THEN Raise(st, "ValueError")
       ELSE LET popped == [st EXCEPT !.locations = RemoveAt(@, i)]
                cleaned == Location_cleanup(popped, l)
            IN IF cleaned.err # "ok" THEN cleaned
               ELSE LET told == Call(cleaned, Ev("location_destroyed", h, l))
                    IN IF st.locker THEN release(told, h) ELSE told

RECURSIVE DestroyLocations(_, _, _)
\* the loop of EnvManager.cleanup, left at the first destroy that raises
DestroyLocations(st, todo, i) ==
    IF i > Len(todo) THEN st
    ELSE LET s == EnvManager_destroy(st, todo[i])
         IN IF s.err # "ok" THEN s ELSE DestroyLocations(s, todo, i + 1)

\* a cleanup that releases only when no destroy raised
EnvManager_cleanup_nofinally(st) ==
    LET s == DestroyLocations(st, ReversedValues(st.locations), 1)
    IN IF st.locker /\ s.err = "ok" THEN release_all(s) ELSE s

\* EnvManager.cleanup
EnvManager_cleanup(st) ==
    LET s == DestroyLocations(st, ReversedValues(st.locations), 1)
    IN IF st.locker THEN release_all(s) ELSE s

(* ------------------------------- callers ------------------------------- *)
\* facts a caller passes to manage(); the empty mapping also stands for None
FactsChoices == {<<>>, ("k1" :> 2) @@ ("k2" :> 1)}

ab == Dict(<<"a", "b">>, [a |-> 1, b |-> 2])
ba == Dict(<<"b", "a">>, [a |-> 1, b |-> 2])

\* (name, kwargs) pairs a caller passes to Location.role()
RoleArgs == {<<n, EmptyDict>> : n \in RoleNames} \cup {<<"dut", ab>>, <<"dut", ba>>}

NoOp == [proc |-> NoProc, op |-> "init", host |-> "", loc |-> NoId, ctl |-> NoId,
         name |-> "", kwargs |-> EmptyDict, facts |-> <<>>, lock |-> FALSE,
         resumed |-> FALSE, err |-> "ok", ret |-> <<>>, calls |-> <<>>]

\* the operation `o` of process p ends in working state st
Commit(p, st, o) ==
    /\ Len(st.locs) <= MaxLocations
    /\ Len(st.ctls) <= MaxCtls
    /\ locations' = [locations EXCEPT ![p] = st.locations]
    /\ locs' = [locs EXCEPT ![p] = st.locs]
    /\ ctls' = [ctls EXCEPT ![p] = st.ctls]
    /\ registered' = [registered EXCEPT ![p] = st.registered]
    /\ holder' = st.holder
    /\ lockcalls' = [lockcalls EXCEPT ![p] = st.lockcalls]
    /\ history' = [history EXCEPT ![p] = st.history]
    /\ inbox' = [inbox EXCEPT ![p] = st.inbox]
    /\ waiting' = [waiting EXCEPT ![p] =
                      IF st.err = "blocked"
                      THEN <<[op |-> o.op, name |-> o.name, loc |-> st.blocked[1],
                              todo |-> st.todo, acc |-> st.ret]>>
                      ELSE <<>>]
    /\ last' = [o EXCEPT !.proc = p, !.err = st.err, !.calls = st.calls,
                         !.ret = IF st.err = "ok" THEN st.ret ELSE <<>>]
    /\ UNCHANGED locker

Idle(p) == waiting[p] = <<>>

LocIds(p) == 1..Len(locs[p])
CtlIds(p) == 1..Len(ctls[p])

\* whether a caller passes a timeout
Timeouts == BOOLEAN

\* env.manage(hostname, facts, lock, timeout), the arguments drawn from the
\* sets HS, FS, LS and TS
Manage(p, HS, FS, LS, TS) ==
    /\ Idle(p)
    /\ \E h \in HS, f \in FS, lk \in LS, t \in TS :
          Commit(p, manage(St(p), h, f, lk, t),
                 [NoOp EXCEPT !.op = "manage", !.host = h, !.facts = f,
                              !.lock = lk])

\* role names a caller looks up in the Environment ("nope" has no descriptor)
EnvRoleNames == {"dut", "sip", "nope"}

\* env.get_locations(rolename, timeout), the arguments drawn from NS and TS
GetLocations(p, NS, TS) ==
    /\ Idle(p)
    /\ \E n \in NS, t \in TS :
          Commit(p, get_locations(St(p), n, t),
                 [NoOp EXCEPT !.op = "get_locations", !.name = n])

\* env.find(rolename, timeout)
Find(p, TS) ==
    /\ Idle(p)
    /\ \E n \in EnvRoleNames, t \in TS :
          Commit(p, find(St(p), n, t),
                 [NoOp EXCEPT !.op = "find", !.name = n])

\* env.find_one(rolename, timeout)
FindOne(p, TS) ==
    /\ Idle(p)
    /\ \E n \in EnvRoleNames, t \in TS :
          Commit(p, find_one(St(p), n, t),
                 [NoOp EXCEPT !.op = "find_one", !.name = n])

\* env.destroy(location), on any Location handle the caller still has
Destroy(p) ==
    /\ Idle(p)
    /\ \E l \in LocIds(p) :
          Commit(p, EnvManager_destroy(St(p), l),
                 [NoOp EXCEPT !.op = "destroy", !.loc = l,
                              !.host = locs[p][l].hostname])

\* env.cleanup()
Cleanup(p) ==
    /\ Idle(p)
    /\ Commit(p, EnvManager_cleanup(St(p)), [NoOp EXCEPT !.op = "cleanup"])

\* location.role(name, **kwargs), the arguments drawn from the set AS
Role(p, AS) ==
    /\ Idle(p)
    /\ \E l \in LocIds(p), a \in AS :
          Commit(p, role(St(p), l, a[1], a[2]),
                 [NoOp EXCEPT !.op = "role", !.loc = l, !.name = a[1],
                              !.kwargs = a[2], !.host = locs[p][l].hostname])

\* location.destroy(role), on any controller the caller still has
LocationDestroy(p) ==
    /\ Idle(p)
    /\ \E l \in LocIds(p), c \in CtlIds(p) :
          Commit(p, Location_destroy(St(p), l, c),
                 [NoOp EXCEPT !.op = "location_destroy", !.loc = l, !.ctl = c,
                              !.host = locs[p][l].hostname])

\* location.cleanup()
LocationCleanup(p) ==
    /\ Idle(p)
    /\ \E l \in LocIds(p) :
          Commit(p, Location_cleanup(St(p), l),
                 [NoOp EXCEPT !.op = "location_cleanup", !.loc = l,
                              !.host = locs[p][l].hostname])

\* the blocked acquire() of p returns once the lock is free, and the operation
\* it was called from runs on to its end
Resume(p) ==
    /\ waiting[p] # <<>>
    /\ LET w == waiting[p][1]
           h == locs[p][w.loc].hostname
           got == [St(p) EXCEPT !.holder[h] = p,
                                !.lockcalls = Logged(@, h, "acquired")]
           rest == ManageEach(got, w.todo, w.acc \o <<w.loc>>, TRUE, FALSE)
           done == CASE w.op = "manage" -> [got EXCEPT !.ret = <<w.loc>>]
                     [] w.op = "find" -> find_roles(rest, w.name)
                     [] w.op = "find_one" -> first_of(find_roles(rest, w.name))
                     [] OTHER -> rest
       IN /\ holder[h] = NoProc
          /\ Commit(p, done, [NoOp EXCEPT !.op = w.op, !.name = w.name,
                                          !.host = h, !.loc = w.loc,
                                          !.lock = TRUE, !.resumed = TRUE])

\* a plugin implementing the role-created hook is registered with the plugin
\* manager of p: the notifications fired so far are replayed to it
Subscribe(p) ==
    /\ Idle(p)
    /\ \E s \in Subs \ DOMAIN inbox[p] :
          inbox' = [inbox EXCEPT ![p] = @ @@ (s :> attach(history[p]))]
    /\ last' = [NoOp EXCEPT !.proc = p, !.op = "subscribe"]
    /\ UNCHANGED <<locations, locs, ctls, registered, locker, holder, waiting,
                   lockcalls, history>>

(* ---------------------------- specifications --------------------------- *)
Init ==
    /\ locations = [p \in Procs |-> <<>>]
    /\ locs = [p \in Procs |-> <<>>]
    /\ ctls = [p \in Procs |-> <<>>]
    /\ registered = [p \in Procs |-> {}]
    /\ locker = [p \in Procs |-> TRUE]
    /\ holder = [h \in Hosts |-> NoProc]
    /\ waiting = [p \in Procs |-> <<>>]
    /\ lockcalls = [p \in Procs |-> <<>>]
    /\ history = [p \in Procs |-> <<>>]
    /\ inbox = [p \in Procs |-> <<>>]
    /\ last = NoOp

\* one test run: locations looked up by role, roles loaded at them, teardown
Next ==
    \/ GetLocations(1, EnvRoleNames, {TRUE})
    \/ Destroy(1)
    \/ Cleanup(1)
    \/ Role(1, {<<"dut", EmptyDict>>, <<"bad", EmptyDict>>})
    \/ LocationCleanup(1)

Spec == Init /\ [][Next]_vars

\* one test run: every operation of EnvManager, with every choice of facts
NextEnv ==
    \/ Manage(1, Hosts, FactsChoices, BOOLEAN, {TRUE})
    \/ GetLocations(1, EnvRoleNames, {TRUE})
    \/ Find(1, {TRUE})
    \/ FindOne(1, {TRUE})
    \/ Destroy(1)
    \/ Cleanup(1)

SpecEnv == Init /\ [][NextEnv]_vars

\* one Location: every operation of Location, with every kind of factory
NextRoles ==
    \/ Manage(1, {"h1"}, {<<>>}, BOOLEAN, {TRUE})
    \/ Role(1, RoleArgs)
    \/ LocationDestroy(1)
    \/ LocationCleanup(1)

SpecRoles == Init /\ [][NextRoles]_vars

\* roles loaded at the Locations of one hostname, and every way to tear them
\* down
NextTeardown ==
    \/ Manage(1, {"h1"}, {<<>>}, {TRUE}, {TRUE})
    \/ Role(1, {<<"dut", EmptyDict>>, <<"bad", EmptyDict>>})
    \/ LocationDestroy(1)
    \/ LocationCleanup(1)
    \/ Destroy(1)
    \/ Cleanup(1)

SpecTeardown == Init /\ [][NextTeardown]_vars

\* two test runs on one lock service, each asking for locations with their
\* locks, and releasing them
NextCross ==
    \E p \in Procs :
        \/ Manage(p, Hosts, {<<>>}, {TRUE}, Timeouts)
        \/ GetLocations(p, EnvRoleNames \ neverlock, Timeouts)
        \/ Destroy(p)
        \/ Cleanup(p)
        \/ Resume(p)

SpecCross == Init /\ [][NextCross]_vars

\* one Location whose roles are loaded and destroyed while plugins attach
NextBus ==
    \/ Manage(1, {"h1"}, {<<>>}, {FALSE}, {TRUE})
    \/ Role(1, {<<"dut", EmptyDict>>, <<"sip", EmptyDict>>, <<"raw", EmptyDict>>})
    \/ LocationDestroy(1)
    \/ LocationCleanup(1)
    \/ Subscribe(1)

SpecBus == Init /\ [][NextBus]_vars

\* the state after construction with lock clients that log their calls
InitLogged ==
    /\ locations = [p \in Procs |-> <<>>]
    /\ locs = [p \in Procs |-> <<>>]
    /\ ctls = [p \in Procs |-> <<>>]
    /\ registered = [p \in Procs |-> {}]
    /\ locker = [p \in Procs |-> TRUE]
    /\ holder = [h \in Hosts |-> NoProc]
    /\ waiting = [p \in Procs |-> <<>>]
    /\ lockcalls = [p \in Procs |-> NoCalls]
    /\ history = [p \in Procs |-> <<>>]
    /\ inbox = [p \in Procs |-> <<>>]
    /\ last = NoOp

\* one test run on a lock client that logs its calls: locations managed with
\* and without their locks, and destroyed
NextLocks ==
    \/ Manage(1, Hosts, {<<>>}, BOOLEAN, {TRUE})
    \/ GetLocations(1, {"dut", "sip"}, {TRUE})
    \/ Find(1, {TRUE})
    \/ Destroy(1)
    \/ Cleanup(1)

SpecLocks == InitLogged /\ [][NextLocks]_vars

TypeOK ==
    /\ \A p \in Procs : Len(locs[p]) <= MaxLocations /\ Len(ctls[p]) <= MaxCtls
    /\ \A h \in Hosts : holder[h] \in Procs \cup {NoProc}

(* ------------------------------- claims -------------------------------- *)
\* the controllers cached at Location l of process p
Cached(p, l) == {locs[p][l].roles[i].value : i \in 1..Len(locs[p][l].roles)}

\* the hostnames in the Location cache of process p
Managed(p) == {locations[p][i].key : i \in 1..Len(locations[p])}

\* the controllers the factories returned during the last operation
BuiltLast == {last.calls[i].id : i \in {j \in 1..Len(last.calls) :
                                            last.calls[j].ev = "factory"}}

\* C1: a role() call whose (name, kwargs) key is cached at the Location (an
\* earlier call with the same arguments built it, and it was not destroyed
\* since) invokes no factory and returns the cached controller; a call that
\* misses invokes the factory exactly once and caches what it built; so a key
\* never has two controllers.
C1_RoleBuiltOncePerKey ==
    [][last'.op = "role" =>
        LET p == last'.proc
            l == last'.loc
            key == RoleKey(last'.name, last'.kwargs)
            before == locs[p][l].roles
            after == locs'[p][l].roles
            n == CountEv(last'.calls, "factory")
        IN /\ \A i \in 1..Len(before) : before[i].key = key =>
                 /\ n = 0
                 /\ ctls'[p] = ctls[p]
                 /\ last'.err = "ok"
                 /\ last'.ret = <<before[i].value>>
                 /\ after = before
           /\ (\A i \in 1..Len(before) : before[i].key # key) =>
                 /\ n = IF last'.name \in DOMAIN roles2factories THEN 1 ELSE 0
                 /\ Len(ctls'[p]) = Len(ctls[p]) + n
                 /\ n = 1 => after = Append(before, [key |-> key,
                                                     value |-> Len(ctls'[p])])
                 /\ last'.err = "ok" => last'.ret = <<Len(ctls'[p])>>
           /\ \A i, j \in 1..Len(after) : after[i].key = after[j].key => i = j
    ]_vars

\* C1 witness: a role() call was answered from the cache
C1_Witness ==
    /\ last.op = "role" /\ last.err = "ok"
    /\ CountEv(last.calls, "factory") = 0
    /\ Len(last.ret) = 1

\* the same role name and the same set of (key, value) keyword arguments
SameArguments(k1, k2) ==
    /\ k1[1] = k2[1]
    /\ {k1[2][i] : i \in 1..Len(k1[2])} = {k2[2][i] : i \in 1..Len(k2[2])}

\* C2: a role() call whose keyword arguments are, as a set, those of a cached
\* controller of the same role name returns that controller and invokes no
\* factory, in whatever order the arguments are passed.
C2_KwargsOrderIndependent ==
    [][last'.op = "role" =>
        LET p == last'.proc
            l == last'.loc
            key == RoleKey(last'.name, last'.kwargs)
            before == locs[p][l].roles
        IN \A i \in 1..Len(before) : SameArguments(before[i].key, key) =>
              /\ CountEv(last'.calls, "factory") = 0
              /\ last'.ret = <<before[i].value>>
    ]_vars

\* C3: when role() fails because the controller built has no `location` or
\* another one, that controller is not in the role cache of the Location, is
\* not registered and was not announced.
C3_BadControllerNotCached ==
    (last.op = "role" /\ last.err \in {"AttributeError", "AssertionError"}) =>
        /\ BuiltLast \cap Cached(last.proc, last.loc) = {}
        /\ BuiltLast \cap registered[last.proc] = {}
        /\ CountEv(last.calls, "role_created") = 0

\* the facts the last operation passed to manage() for hostname h
FactsPassed(o, h) == IF o.op = "manage" THEN o.facts ELSE EnvFacts(h)

\* the hostnames the last operation called manage() with
HostsPassed(o) ==
    IF o.op = "manage" THEN {o.host}
    ELSE {EnvGet(o.name)[i] : i \in 1..Len(EnvGet(o.name))}

\* C4: manage(h, f2), called directly or by get_locations, for a hostname
\* already in the Location cache returns the Location that is cached, leaves
\* its facts as they were updated by f2 (keys absent from f2 retained, none
\* deleted), and calls no acquire whatever lock and timeout are; the first
\* manage(h, f1) returns a new Location with facts f1.
C4_ManageIdempotent ==
    [][last'.op \in {"manage", "get_locations"} =>
        LET p == last'.proc
        IN \A h \in HostsPassed(last') :
              LET i == IndexOf(locations[p], h)
                  j == IndexOf(locations'[p], h)
                  f2 == FactsPassed(last', h)
              IN /\ i # 0 =>
                       LET l == locations[p][i].value
                           f1 == locs[p][l].facts
                           f == locs'[p][l].facts
                       IN /\ last'.err = "ok"
                          /\ \E k \in 1..Len(last'.ret) : last'.ret[k] = l
                          /\ j # 0 /\ locations'[p][j].value = l
                          /\ DOMAIN f = (DOMAIN f1) \cup (DOMAIN f2)
                          /\ \A k \in DOMAIN f2 : f[k] = f2[k]
                          /\ \A k \in (DOMAIN f1) \ (DOMAIN f2) : f[k] = f1[k]
                          /\ \A k \in 1..Len(last'.calls) :
                                ~(last'.calls[k].ev = "acquire"
                                    /\ last'.calls[k].host = h)
                          /\ holder'[h] = holder[h]
                 /\ (i = 0 /\ last'.err = "ok") =>
                       /\ j # 0
                       /\ locations'[p][j].value > Len(locs[p])
                       /\ locs'[p][locations'[p][j].value].facts = f2
                       /\ \E k \in 1..Len(last'.ret) :
                             last'.ret[k] = locations'[p][j].value
    ]_vars

\* C4 witness: a second manage() of a hostname, asking for its lock, overwrote
\* one fact of a Location and left it the other fact it had, without an acquire
C4_Witness ==
    /\ last.op = "get_locations" /\ last.err = "ok" /\ last.name = "dut"
    /\ last.calls = <<>>
    /\ locs[last.proc][last.ret[1]].facts = ("k1" :> 1) @@ ("k2" :> 1)

\* the last operation asked for the lock of what it returns
AskedLock ==
    \/ last.op = "get_locations" /\ last.name \notin neverlock
    \/ last.op = "manage" /\ last.lock

\* C5: when get_locations(role) for a role not in neverlock, or
\* manage(h, lock=true), returns normally from an EnvManager that has a lock
\* client, the process holds the lock of every Location returned.
C5_LockHeldWhenRequested ==
    (AskedLock /\ last.err = "ok" /\ locker[last.proc]) =>
        \A i \in 1..Len(last.ret) :
            holder[locs[last.proc][last.ret[i]].hostname] = last.proc

\* the processes that have hostname h in their Location cache and are not
\* inside the call that put it there
Owners(h) == {p \in Procs : waiting[p] = <<>> /\ h \in Managed(p)}

\* C6: when every request asks for the lock, at most one process at a time
\* has a hostname in its Location cache.
C6_MutualExclusion == \A h \in Hosts : Cardinality(Owners(h)) <= 1

\* C7: get_locations, find and find_one for a role in neverlock call no
\* acquire and leave the lock service as it was.
C7_NeverlockNeverAcquires ==
    [][(last'.op \in {"get_locations", "find", "find_one"}
            /\ last'.name \in neverlock) =>
        /\ CountEv(last'.calls, "acquire") = 0
        /\ holder' = holder
    ]_vars

\* C7 witness: find() of a neverlock role returned its controllers
C7_Witness ==
    /\ last.op = "find" /\ last.name = "sip" /\ last.err = "ok"
    /\ Len(last.ret) = 1
    /\ locker[last.proc]

\* C8: destroy(location) attempts release(hostname) after location.cleanup()
\* also when the cleanup raised, so a destroy whose cleanup raised does not
\* end with the lock of the hostname held by the process.
C8_ReleaseAfterCleanupRaised ==
    (last.op = "destroy" /\ locker[last.proc] /\ last.err = "CloseError") =>
        holder[last.host] # last.proc

\* the last operation called close() on a controller whose close() raises
CloseRaisedLast ==
    \E i \in 1..Len(last.calls) :
        /\ last.calls[i].ev = "close"
        /\ ctls[last.proc][last.calls[i].id].close = "raises"

\* C9: cleanup() of an EnvManager that has a lock client calls release_all()
\* exactly once, as its last call, whether or not a destroy raised; it ends
\* with the error a raising destroy raised, and normally otherwise.
C9_CleanupReleasesAllOnce ==
    (last.op = "cleanup" /\ locker[last.proc]) =>
        /\ CountEv(last.calls, "release_all") = 1
        /\ last.calls[Len(last.calls)].ev = "release_all"
        /\ last.err = IF CloseRaisedLast THEN "CloseError" ELSE "ok"

\* C9 witness: a cleanup() in which a destroy raised
C9_Witness ==
    /\ last.op = "cleanup" /\ locker[last.proc]
    /\ last.err = "CloseError"
    /\ CountEv(last.calls, "release_all") = 1

\* C10: destroy(location) of a hostname that is not in the Location cache (a
\* second destroy of a handle) fails with the unknown-location error, calls
\* no release and changes nothing; a destroy that returns normally has
\* removed the hostname and called release(hostname) once; no destroy calls
\* release twice.
C10_DestroyTwice ==
    [][last'.op = "destroy" =>
        LET p == last'.proc
            h == last'.host
            n == CountEv(last'.calls, "release")
        IN /\ h \notin Managed(p) =>
                 /\ last'.err = "ValueError"
                 /\ last'.calls = <<>>
                 /\ holder' = holder
                 /\ locations' = locations /\ locs' = locs
           /\ (h \in Managed(p) /\ last'.err = "ok") =>
                 /\ h \notin {locations'[p][i].key : i \in 1..Len(locations'[p])}
                 /\ n = IF locker[p] THEN 1 ELSE 0
                 /\ holder'[h] # p
           /\ n <= 1
    ]_vars

\* C10 witness: a destroy() of a Location that was destroyed before
C10_Witness ==
    /\ last.op = "destroy" /\ last.err = "ValueError"
    /\ last.host \notin Managed(last.proc)

\* C11: get_locations(role), called directly or by find and find_one, for a
\* role that has no descriptor in the Environment raises the
\* unknown-role-in-environment error (it never returns, an empty list
\* included), calls nothing (no acquire) and leaves the EnvManager as it was:
\* no Location is created, cached or changed.
C11_UnknownRoleRaises ==
    [][(last'.op \in {"get_locations", "find", "find_one"}
            /\ Len(EnvGet(last'.name)) = 0) =>
        /\ last'.err = "EquipmentLookupError"
        /\ last'.ret = <<>>
        /\ last'.calls = <<>>
        /\ UNCHANGED <<locations, locs, ctls, registered, holder, waiting,
                       lockcalls>>
    ]_vars

\* C11 witness: get_locations() of an unknown role raised while a Location
\* was managed
C11_Witness ==
    /\ last.op = "get_locations" /\ last.name = "nope"
    /\ last.err = "EquipmentLookupError"
    /\ Len(locations[last.proc]) > 0

\* the controllers role() has announced at process p, in the order it did
Announced(p) ==
    LET passed(c) == ctls[p][c].location \notin {NoAttr, Elsewhere}
    IN SelectSeq([c \in 1..Len(ctls[p]) |-> c], passed)

CountHostEv(calls, name, h) ==
    Cardinality({i \in 1..Len(calls) : calls[i].ev = name /\ calls[i].host = h})

\* C13 as stated: over a whole run of one EnvManager with a lock client, a
\* hostname whose lock was asked for is acquired at most once and released by
\* release(hostname) at most once.
C13_AcquiredReleasedOnce ==
    \A p \in Procs : \A h \in DOMAIN lockcalls[p] :
        lockcalls[p][h].acquired >= 1 =>
            /\ lockcalls[p][h].acquired <= 1
            /\ lockcalls[p][h].released <= 1

\* C13 amended: a hostname is acquired at most once and released by
\* release(hostname) at most once for each period it stays in the Location
\* cache: acquire(h) is called at most once by an operation and only by the
\* one that puts h into the cache, release(h) at most once and only by the
\* one that takes h out of it.
C13_AcquiredReleasedOncePerStay ==
    [][last'.op # "subscribe" =>
        LET p == last'.proc
            before == Managed(p)
            after == {locations'[p][i].key : i \in 1..Len(locations'[p])}
        IN \A h \in Hosts :
              LET a == CountHostEv(last'.calls, "acquire", h)
                  r == CountHostEv(last'.calls, "release", h)
              IN /\ a <= 1 /\ r <= 1
                 /\ a = 1 => (h \notin before /\ r = 0)
                 /\ r = 1 => (h \in before /\ h \notin after)
                 /\ h \in DOMAIN lockcalls[p] =>
                       /\ lockcalls'[p][h].acquired <= lockcalls[p][h].acquired + a
                       /\ lockcalls'[p][h].released = lockcalls[p][h].released + r
    ]_vars

\* C13 witness: a hostname that was managed with its lock and destroyed is
\* managed again, and acquired again
C13_Witness ==
    /\ last.op = "manage" /\ last.err = "ok"
    /\ CountHostEv(last.calls, "acquire", last.host) = 1
    /\ lockcalls[last.proc][last.host] = [acquired |-> 2, released |-> 1]

\* the objects the calls of `name` among `calls` were made for, in call order
EvIds(calls, name) ==
    LET is(e) == e.ev = name
        made == SelectSeq(calls, is)
    IN [i \in 1..Len(made) |-> made[i].id]

\* the values of an OrderedDict, last inserted first
LastFirst(od) == [i \in 1..Len(od) |-> od[Len(od) + 1 - i].value]

IsPrefix(a, b) == Len(a) <= Len(b) /\ \A i \in 1..Len(a) : a[i] = b[i]

\* the entries of an OrderedDict hold objects in the order they were created
InCreationOrder(od) ==
    \A i, j \in 1..Len(od) : i < j => od[i].value < od[j].value

RECURSIVE RolesLastFirst(_, _)
\* the controllers cached at the Locations `ls` of p, Location by Location,
\* each last created first
RolesLastFirst(p, ls) ==
    IF Len(ls) = 0 THEN <<>>
    ELSE LastFirst(locs[p][Head(ls)].roles) \o RolesLastFirst(p, Tail(ls))

\* C14: teardown is last-in first-out at both levels. Location.cleanup(), run
\* on its own or by EnvManager.destroy, destroys the cached controllers in
\* the reverse of the order they were created in at the Location;
\* EnvManager.cleanup() destroys the managed Locations in the reverse of the
\* order they were first managed in; all of them when nothing raises, and up
\* to the one whose teardown raises otherwise.
C14_TeardownLIFO ==
    [][LET p == last'.proc
           roles == EvIds(last'.calls, "role_destroyed")
           places == EvIds(last'.calls, "location_destroyed")
       IN /\ \A q \in Procs :
                /\ InCreationOrder(locations[q])
                /\ \A l \in LocIds(q) : InCreationOrder(locs[q][l].roles)
          /\ last'.op \in {"location_cleanup", "destroy"} =>
                /\ IsPrefix(roles, LastFirst(locs[p][last'.loc].roles))
                /\ last'.err = "ok" =>
                      roles = LastFirst(locs[p][last'.loc].roles)
          /\ last'.op = "cleanup" =>
                /\ IsPrefix(places, LastFirst(locations[p]))
                /\ IsPrefix(roles, RolesLastFirst(p, LastFirst(locations[p])))
                /\ last'.err = "ok" =>
                      /\ places = LastFirst(locations[p])
                      /\ roles = RolesLastFirst(p, LastFirst(locations[p]))
    ]_vars

\* C14 witness: a cleanup() destroyed one Location, then, at the Location
\* managed before it, two controllers
C14_Witness ==
    /\ last.op = "cleanup"
    /\ CountEv(last.calls, "location_destroyed") = 1
    /\ \E h \in Hosts : CountHostEv(last.calls, "role_destroyed", h) = 2

\* C15: Location.destroy(controller) for a controller that is in the role
\* cache removes it from the cache, then fires role-destroyed, then calls its
\* close() if it has one, then unregisters it, in this order (a close() that
\* raises ends the steps there, the controller being out of the cache
\* already); for a controller whose key is not in the cache it does nothing:
\* no notification, no close(), no unregister, the cache as it was.
C15_DestroySteps ==
    [][last'.op = "location_destroy" =>
        LET p == last'.proc
            l == last'.loc
            c == last'.ctl
            h == locs[p][l].hostname
            before == locs[p][l].roles
            after == locs'[p][l].roles
            fired == Ev("role_destroyed", h, c)
            closed == Ev("close", h, c)
            gone == Ev("unregister", h, c)
        IN /\ c \in Cached(p, l) =>
                 /\ Len(after) = Len(before) - 1
                 /\ \A i \in 1..Len(after) :
                        after[i].value # c /\ \E j \in 1..Len(before) : before[j] = after[i]
                 /\ ctls[p][c].close = "ok" =>
                        /\ last'.calls = <<fired, closed, gone>>
                        /\ last'.err = "ok"
                        /\ registered'[p] = registered[p] \ {c}
                 /\ ctls[p][c].close = "none" =>
                        /\ last'.calls = <<fired, gone>>
                        /\ last'.err = "ok"
                        /\ registered'[p] = registered[p] \ {c}
                 /\ ctls[p][c].close = "raises" =>
                        /\ last'.calls = <<fired, closed>>
                        /\ last'.err = "CloseError"
           /\ (\A i \in 1..Len(before) : before[i].key # ctls[p][c].key) =>
                 /\ last'.calls = <<>>
                 /\ last'.err = "ok"
                 /\ locs' = locs
                 /\ registered' = registered
    ]_vars

\* C15 witness: destroy() of a cached controller that has a close()
C15_Witness ==
    /\ last.op = "location_destroy" /\ last.err = "ok"
    /\ Len(last.calls) = 3
    /\ last.calls[2] = Ev("close", last.host, last.ctl)

\* C16: when Location.cleanup(), run on its own or by EnvManager.destroy,
\* returns normally the role cache of the Location is empty and every
\* controller that was cached there has been torn down; and no controller is
\* torn down more than once over a run, whatever destroy(controller),
\* Location.cleanup(), EnvManager.destroy and cleanup calls follow.
C16_TornDownOnce ==
    [][/\ \A p \in Procs : \A c \in 1..Len(ctls'[p]) : ctls'[p][c].torn <= 1
       /\ (last'.op \in {"location_cleanup", "destroy"} /\ last'.err = "ok") =>
             LET p == last'.proc
                 l == last'.loc
             IN /\ locs'[p][l].roles = <<>>
                /\ \A c \in Cached(p, l) :
                       /\ ctls[p][c].torn = 0
                       /\ ctls'[p][c].torn = 1
                       /\ CountEv(SelectSeq(last'.calls,
                                    LAMBDA e : e.id = c), "role_destroyed") = 1
    ]_vars

\* C16 witness: a Location.cleanup() that tore a controller down returned
\* normally, at a time when another controller had been torn down before
C16_Witness ==
    /\ last.op = "location_cleanup" /\ last.err = "ok"
    /\ CountEv(last.calls, "role_destroyed") = 1
    /\ \A c \in CtlIds(last.proc) : ctls[last.proc][c].torn = 1
    /\ Len(ctls[last.proc]) = 2

\* C17 as stated: an operation that releases the lock of a managed hostname,
\* by release(hostname) or by release_all(), also when a destroy or a close()
\* raised in it, leaves no controller cached at the Location of that
\* hostname.
C17_ReleaseAfterTeardown ==
    [][last'.op \in {"destroy", "cleanup"} =>
        LET p == last'.proc
        IN \A h \in Managed(p) :
              (holder[h] = p /\ holder'[h] # p) =>
                  LET l == locations[p][IndexOf(locations[p], h)].value
                  IN locs'[p][l].roles = <<>>
    ]_vars

\* the calls that tear a controller down
TeardownEvs == {"role_destroyed", "close", "unregister"}

\* C17 amended: when destroy(location) or cleanup() ends normally, every
\* release(hostname) it made comes after all the teardown calls for that
\* hostname, release_all() is its last call, and the Locations it destroyed
\* (the handle given to destroy; every managed Location for cleanup) have no
\* controller cached or registered any more.
C17_ReleaseAfterTeardownIfNoRaise ==
    [][(last'.op \in {"destroy", "cleanup"} /\ last'.err = "ok") =>
        LET p == last'.proc
            calls == last'.calls
            destroyed == IF last'.op = "destroy" THEN {last'.loc}
                         ELSE {locations[p][i].value : i \in 1..Len(locations[p])}
        IN /\ \A l \in destroyed :
                 /\ locs'[p][l].roles = <<>>
                 /\ Cached(p, l) \cap registered'[p] = {}
           /\ \A k \in 1..Len(calls) :
                 /\ calls[k].ev = "release" =>
                       \A j \in 1..Len(calls) :
                           (calls[j].ev \in TeardownEvs
                               /\ calls[j].host = calls[k].host) => j < k
                 /\ calls[k].ev = "release_all" => k = Len(calls)
           /\ CountEv(calls, "release") + CountEv(calls, "release_all") >= 1
    ]_vars

\* C17 witness: a destroy() tore a controller down and released the lock
C17_Witness ==
    /\ last.op = "destroy" /\ last.err = "ok"
    /\ CountEv(last.calls, "unregister") = 1
    /\ last.calls[Len(last.calls)].ev = "release"
    /\ holder[last.host] = NoProc

\* C18: release(hostname) is called only for a hostname whose lock the
\* process holds, so at any time the release(h) calls made are no more than
\* the acquire(h) calls that succeeded, also for Locations managed with
\* lock=false or through a neverlock role.
C18_ReleasesWithinAcquires ==
    \A p \in Procs : \A h \in DOMAIN lockcalls[p] :
        lockcalls[p][h].released <= lockcalls[p][h].acquired

\* C19: when manage(h, lock=true), called directly or by get_locations, fails
\* because acquire(h) timed out, h is not in the Location cache afterwards
\* (a manage called directly leaves the cache as it was), so that a later
\* manage of h tries the acquire again.
C19_FailedAcquireNotCached ==
    (last.err = "LockTimeout" /\ last.calls # <<>>) =>
        LET failed == last.calls[Len(last.calls)]
        IN /\ failed.ev = "acquire"
           /\ failed.host \notin Managed(last.proc)

\* C20: between operations, also after one that ended with an error, a
\* controller is registered with the plugin manager if and only if it is in
\* the role cache of a Location.
C20_RegisteredIffCached ==
    \A p \in Procs : \A c \in CtlIds(p) :
        c \in registered[p] <=> \E l \in LocIds(p) : c \in Cached(p, l)

====
